---- MODULE Spec2Model ----
(***************************************************************************)
(* A model of the planning core of TSMS: the Plan / Task / Objective       *)
(* aggregate of app/models/planning.py and the request handlers and        *)
(* authorization predicates of app/blueprints/planning/routes.py.          *)
(*                                                                         *)
(* Rows of a table are records; the rows of a plan's tasks and objectives  *)
(* are kept as one sequence per plan (creation order), a row's primary key *)
(* being its position.  None is 0; every primary key is >= 1.              *)
(***************************************************************************)
EXTENDS Integers, Sequences, FiniteSets, TLC

VARIABLES
    users,          \* users table: id -> [role, teacher_profile]
    students,       \* students table: id -> [supervisor_id, assigned_teacher_id]
    plans,          \* plans table: id -> Plan row (the domain is the set of existing plans)
    objectives,     \* objectives table: plan id -> sequence of Objective rows
    tasks,          \* tasks table: plan id -> sequence of Task rows
    student_plans,  \* student_plans table: set of StudentPlan rows
    last,           \* the request or call served last, and how it ended
    inflight,       \* SpecConc: the requests between two of their commits
    sessions        \* the users that hold a login session (flask_login)

vars == <<users, students, plans, objectives, tasks, student_plans, last, inflight, sessions>>

directory == <<users, students, sessions>>
rows == <<plans, objectives, tasks, student_plans>>

None == 0

(***************************************************************************)
(* Bounds of the model.                                                    *)
(***************************************************************************)
MaxObjectives == 50     \* objectives of the plan of SpecProgress
MaxCalls == 2           \* consecutive update_progress calls of SpecProgress
MaxTasks == 1           \* tasks of a plan
MaxPlanObjectives == 2  \* objectives of the plan of SpecPlan and SpecConc

(***************************************************************************)
(* Enumerations of app/models/planning.py and app/models/user.py.          *)
(***************************************************************************)
PlanStatus == {"draft", "active", "completed", "cancelled", "on_hold"}
TaskStatus == {"pending", "in_progress", "completed", "overdue", "cancelled"}
ObjectiveStatus == {"pending", "completed"}
UserRole == {"admin", "supervisor", "teacher"}

(***************************************************************************)
(* Python's float arithmetic, as calculate_progress uses it:               *)
(*     int((completed / total) * 100)                                      *)
(* completed / total is the IEEE-754 double nearest to the quotient, the   *)
(* product with 100.0 is rounded to a double again (round half to even),   *)
(* and int() truncates.  A double is [zero, exp, mant]: its value is       *)
(* mant * 2^(exp - 52), mant a 53-bit integer in [2^52, 2^53) held as four *)
(* base-2^16 limbs, most significant first (the first limb is in 16..31).  *)
(***************************************************************************)
RECURSIVE Pow2(_)
Pow2(e) == IF e = 0 THEN 1 ELSE 2 * Pow2(e - 1)

Limb == Pow2(16)

\* the least s >= 0 with a * 2^s >= b  (0 < a <= b)
RECURSIVE NormShift(_, _)
NormShift(a, b) == IF a >= b THEN 0 ELSE 1 + NormShift(2 * a, b)

FloatZero == [zero |-> TRUE, exp |-> 0, mant |-> <<0, 0, 0, 0>>]

AddOne(m) ==
    IF m[4] + 1 < Limb THEN <<m[1], m[2], m[3], m[4] + 1>>
    ELSE IF m[3] + 1 < Limb THEN <<m[1], m[2], m[3] + 1, 0>>
    ELSE IF m[2] + 1 < Limb THEN <<m[1], m[2] + 1, 0, 0>>
    ELSE <<m[1] + 1, 0, 0, 0>>

\* the next double above mant * 2^(exp - 52); a mantissa that reaches 2^53 renormalises
RoundUp(exp, m) ==
    LET r == AddOne(m)
    IN IF r[1] >= 32 THEN [zero |-> FALSE, exp |-> exp + 1, mant |-> <<16, 0, 0, 0>>]
       ELSE [zero |-> FALSE, exp |-> exp, mant |-> r]

\* a / b for integers 0 <= a <= b, 0 < b: long division to 53 bits, a guard bit
\* and a sticky bit, rounded half to even
FloatDiv(a, b) ==
    IF a = 0 THEN FloatZero
    ELSE LET s == NormShift(a, b)
             x == a * Pow2(s + 4)
             q0 == x \div b
             t1 == (x % b) * Limb
             q1 == t1 \div b
             t2 == (t1 % b) * Limb
             q2 == t2 \div b
             t3 == (t2 % b) * Limb
             q3 == t3 \div b
             tg == (t3 % b) * 2
             guard == tg \div b
             sticky == (tg % b) # 0
             m == <<q0, q1, q2, q3>>
         IN IF guard = 1 /\ (sticky \/ q3 % 2 = 1)
            THEN RoundUp(0 - s, m)
            ELSE [zero |-> FALSE, exp |-> 0 - s, mant |-> m]

ShiftRight(p, d) ==
    LET k == Pow2(d)
        up == Pow2(16 - d)
    IN << p[1] \div k,
          (p[1] % k) * up + p[2] \div k,
          (p[2] % k) * up + p[3] \div k,
          (p[3] % k) * up + p[4] \div k >>

\* f * c for a double f and a small integer c > 0 (c is a double exactly): the
\* exact product, rounded half to even to 53 bits
FloatMulInt(f, c) ==
    IF f.zero THEN FloatZero
    ELSE LET m == f.mant
             t4 == m[4] * c
             t3 == m[3] * c + t4 \div Limb
             t2 == m[2] * c + t3 \div Limb
             t1 == m[1] * c + t2 \div Limb
             p == <<t1, t2 % Limb, t3 % Limb, t4 % Limb>>
             d == CHOOSE i \in 0..16 : t1 \div Pow2(i) \in 16..31
             r == ShiftRight(p, d)
             rem == p[4] % Pow2(d)
             half == IF d = 0 THEN 1 ELSE Pow2(d - 1)
         IN IF d > 0 /\ (rem > half \/ (rem = half /\ r[4] % 2 = 1))
            THEN RoundUp(f.exp + d, r)
            ELSE [zero |-> FALSE, exp |-> f.exp + d, mant |-> r]

\* int(f) for a double 0 <= f < 2^16: truncation
FloatToInt(f) ==
    IF f.zero \/ f.exp < 0 THEN 0
    ELSE (f.mant[1] * Limb + f.mant[2]) \div Pow2(20 - f.exp)

(***************************************************************************)
(* Plan (app/models/planning.py).                                          *)
(***************************************************************************)
objective_count(objs) == Len(objs)

completed_objective_count(objs) ==
    Cardinality({i \in 1..Len(objs) : objs[i].status = "completed"})

calculate_progress(objs) ==
    LET total == objective_count(objs)
    IN IF total = 0 THEN 0
       ELSE LET completed == completed_objective_count(objs)
            IN FloatToInt(FloatMulInt(FloatDiv(completed, total), 100))

\* A bug update_progress could have: a plan that is not active is completed too.
update_progress_any_status(plan, objs) ==
    LET pp == calculate_progress(objs)
    IN [plan EXCEPT !.progress_percentage = pp,
                    !.status = IF pp = 100 THEN "completed" ELSE plan.status]

\* A bug update_progress could have: the recomputed value is added to the stored one.
update_progress_accumulating(plan, objs) ==
    LET sum == plan.progress_percentage + calculate_progress(objs)
        pp == IF sum > 100 THEN 100 ELSE sum
    IN [plan EXCEPT !.progress_percentage = pp,
                    !.status = IF pp = 100 /\ plan.status = "active"
                               THEN "completed" ELSE plan.status]

\* Plan.update_progress: the plan row it leaves, given the plan's objectives
update_progress(plan, objs) ==
    LET pp == calculate_progress(objs)
    IN [plan EXCEPT !.progress_percentage = pp,
                    !.status = IF pp = 100 /\ plan.status = "active"
                               THEN "completed" ELSE plan.status]

\* Plan.activate
Plan_activate(plan) == [plan EXCEPT !.status = "active"]

\* A bug Plan.complete could have: the status is set and the progress left as it was.
Plan_complete_status_only(plan) == [plan EXCEPT !.status = "completed"]

\* Plan.complete
Plan_complete(plan) == [plan EXCEPT !.status = "completed", !.progress_percentage = 100]

\* Plan.cancel
Plan_cancel(plan) == [plan EXCEPT !.status = "cancelled"]

(***************************************************************************)
(* Task and Objective (app/models/planning.py): the row a method leaves.   *)
(* Each of them but Task.start then calls update_progress on the plan.     *)
(***************************************************************************)
Task_start(task) == [task EXCEPT !.status = "in_progress"]

Task_complete(task) == [task EXCEPT !.status = "completed"]

Task_cancel(task) == [task EXCEPT !.status = "cancelled"]

\* Task.is_overdue; past_due: the task has a due_date and date.today() is after it
Task_is_overdue(task) ==
    IF task.past_due /\ task.status \notin {"completed", "cancelled"} THEN TRUE ELSE FALSE

\* A bug Task.check_overdue could have: only the due date is looked at.
Task_check_overdue_due_only(task) ==
    IF task.past_due THEN [task EXCEPT !.status = "overdue"] ELSE task

\* Task.check_overdue
Task_check_overdue(task) ==
    IF Task_is_overdue(task) /\ task.status \notin {"completed", "cancelled", "overdue"}
    THEN [task EXCEPT !.status = "overdue"]
    ELSE task

\* A bug Objective.toggle could have: it completes, and never reopens.
Objective_toggle_completes(obj) == [obj EXCEPT !.status = "completed"]

Objective_toggle(obj) ==
    [obj EXCEPT !.status = IF obj.status = "completed" THEN "pending" ELSE "completed"]

(***************************************************************************)
(* The objectives text of the plan form: a string, held as the sequence of *)
(* its characters.  str.strip and str.split as Python computes them.       *)
(***************************************************************************)
Whitespace == {" ", "\n"}

RECURSIVE lstrip(_)
lstrip(t) == IF t # <<>> /\ t[1] \in Whitespace THEN lstrip(Tail(t)) ELSE t

RECURSIVE rstrip(_)
rstrip(t) ==
    IF t # <<>> /\ t[Len(t)] \in Whitespace THEN rstrip(SubSeq(t, 1, Len(t) - 1)) ELSE t

strip(t) == rstrip(lstrip(t))

\* t.split('\n'): cur is the line being read, acc the lines read
RECURSIVE split_from(_, _, _)
split_from(t, cur, acc) ==
    IF t = <<>> THEN Append(acc, cur)
    ELSE IF t[1] = "\n" THEN split_from(Tail(t), <<>>, Append(acc, cur))
    ELSE split_from(Tail(t), Append(cur, t[1]), acc)

split(t) == split_from(t, <<>>, <<>>)

\* the loop of create_plan and edit_plan over enumerate(text.strip().split('\n')):
\* one {text, order} per line that is not blank, order being the line's index
\* A bug the loop could have: the objectives are numbered by their own position.
objectives_from_renumbered(lines, i) ==
    LET kept == SelectSeq(lines, LAMBDA l : strip(l) # <<>>)
    IN [k \in 1..Len(kept) |-> [text |-> strip(kept[k]), order |-> k - 1]]

RECURSIVE objectives_from(_, _)
objectives_from(lines, i) ==
    IF i > Len(lines) THEN <<>>
    ELSE LET line == strip(lines[i])
         IN IF line # <<>>
            THEN <<[text |-> line, order |-> i - 1]>> \o objectives_from(lines, i + 1)
            ELSE objectives_from(lines, i + 1)

parse_objectives(text) ==
    IF strip(text) = <<>> THEN <<>> ELSE objectives_from(split(strip(text)), 1)

(***************************************************************************)
(* Authorization (app/blueprints/planning/routes.py, app/models/user.py).  *)
(* The actor is flask_login's current_user, given here as a parameter.     *)
(***************************************************************************)
is_admin(actor) == users[actor].role = "admin"

is_supervisor(actor) == users[actor].role = "supervisor"

is_teacher(actor) == users[actor].role = "teacher"

\* A bug can_manage_student could have: the admin test ahead of the None test.
can_manage_student_admin_first(actor, student) ==
    IF is_admin(actor) THEN TRUE
    ELSE IF student = None THEN FALSE
    ELSE IF is_supervisor(actor) /\ students[student].supervisor_id = actor THEN TRUE
    ELSE IF /\ users[actor].teacher_profile # None
            /\ students[student].assigned_teacher_id = users[actor].teacher_profile THEN TRUE
    ELSE FALSE

can_manage_student(actor, student) ==
    IF student = None THEN FALSE
    ELSE IF is_admin(actor) THEN TRUE
    ELSE IF is_supervisor(actor) /\ students[student].supervisor_id = actor THEN TRUE
    ELSE IF /\ users[actor].teacher_profile # None
            /\ students[student].assigned_teacher_id = users[actor].teacher_profile THEN TRUE
    ELSE FALSE

\* plan.student: the row plan.student_id refers to, None when there is none
plan_student(plan) == IF plan.student_id \in DOMAIN students THEN plan.student_id ELSE None

\* plan.student_plans: the StudentPlan rows of plan p
plan_student_plans(p) == {sp \in student_plans : sp.plan_id = p}

\* plan.is_multi_student
is_multi_student(p) == plan_student_plans(p) # {}

\* A bug can_manage_plan could have: every student of a shared plan must be manageable.
can_manage_plan_universal(actor, p) ==
    IF is_admin(actor) THEN TRUE
    ELSE IF plan_student(plans[p]) # None
         THEN can_manage_student(actor, plan_student(plans[p]))
    ELSE /\ plan_student_plans(p) # {}
         /\ \A sp \in plan_student_plans(p) : can_manage_student(actor, sp.student_id)

can_manage_plan(actor, p) ==
    IF is_admin(actor) THEN TRUE
    ELSE IF plan_student(plans[p]) # None
         THEN can_manage_student(actor, plan_student(plans[p]))
    ELSE \E sp \in plan_student_plans(p) : can_manage_student(actor, sp.student_id)

\* planning_access_required: admin, supervisor, or a user with a teacher profile
planning_access(actor) ==
    is_admin(actor) \/ is_supervisor(actor) \/ users[actor].teacher_profile # None

(***************************************************************************)
(* Rows.                                                                   *)
(***************************************************************************)
\* supervisor_id is the plan form's optional supervisor; the requests of the
\* model leave the field at its "No Supervisor" choice
PlanRow(student_id, created_by_id, status, progress, text) ==
    [student_id |-> student_id, created_by_id |-> created_by_id, supervisor_id |-> None,
     status |-> status, progress_percentage |-> progress, objectives |-> text]

ObjectiveRow(text, order, status) == [text |-> text, order |-> order, status |-> status]

StudentPlanRow(p, student_id, status, objs) ==
    [plan_id |-> p, student_id |-> student_id, status |-> status,
     progress_percentage |-> 0, objectives |-> objs]

TaskRow(status) == [status |-> status]

\* last: the call (op, actor, plan, target: the position of a task or objective,
\* or a student), its outcome, the plan's status before it (pre_status), how many
\* times in a row the call has now been served (n) with the plan's stored
\* progress before the first of them (p0), and the value a predicate returned.
NoRequest ==
    [op |-> "none", actor |-> None, plan |-> None, target |-> None, outcome |-> "none",
     pre_status |-> "none", pre_objective |-> "none", pre_task |-> "none",
     n |-> 0, p0 |-> 0, result |-> FALSE, selected |-> {}]

(***************************************************************************)
(* SpecProgress: Plan.update_progress as a function of one plan's stored   *)
(* row and objectives.  The plan has N objectives of which K are           *)
(* completed; its stored progress is what the last recomputation left, or  *)
(* the 100 that Plan.complete forced (the plan is then completed, or has   *)
(* been activated again by activate_plan).                                 *)
(***************************************************************************)
NK(n, k) ==
    [i \in 1..n |-> ObjectiveRow("o", i - 1, IF i <= k THEN "completed" ELSE "pending")]

FixedUsers ==
    [u \in 1..5 |->
        [role |-> CASE u = 1 -> "admin"
                    [] u \in {2, 4} -> "supervisor"
                    [] OTHER -> "teacher",
         teacher_profile |-> CASE u = 3 -> 1
                               [] u = 4 -> 2
                               [] OTHER -> None]]

FixedStudents ==
    [s \in 1..3 |->
        [supervisor_id |-> CASE s = 1 -> 2 [] s = 2 -> 4 [] OTHER -> None,
         assigned_teacher_id |-> CASE s = 1 -> 1 [] s = 2 -> 2 [] OTHER -> None]]

InitProgress ==
    /\ users = FixedUsers
    /\ students = FixedStudents
    /\ \E n \in 0..MaxObjectives : \E k \in 0..n :
         /\ objectives = (1 :> NK(n, k))
         /\ \/ \E st \in PlanStatus :
                 plans = (1 :> PlanRow(1, 1, st, calculate_progress(NK(n, k)), <<>>))
            \/ \E st \in {"completed", "active"} :
                 plans = (1 :> PlanRow(1, 1, st, 100, <<>>))
    /\ tasks = (1 :> <<>>)
    /\ student_plans = {}
    /\ last = NoRequest
    /\ inflight = {}
    /\ sessions = {}

CallUpdateProgress ==
    /\ last.n < MaxCalls
    /\ plans' = [plans EXCEPT ![1] = update_progress(plans[1], objectives[1])]
    /\ last' = [NoRequest EXCEPT !.op = "update_progress", !.plan = 1,
                                 !.outcome = "ok", !.pre_status = plans[1].status,
                                 !.n = last.n + 1]
    /\ UNCHANGED <<directory, objectives, tasks, student_plans, inflight>>

NextProgress == CallUpdateProgress

SpecProgress == InitProgress /\ [][NextProgress]_vars

(***************************************************************************)
(* SpecAuth: can_manage_student and can_manage_plan as functions of the    *)
(* directory.  Init draws each student's supervisor and assigned teacher   *)
(* and the shape of plan 1 (a single-student plan, with or without its     *)
(* student, or a shared plan of one to three students); an action applies  *)
(* a predicate for an actor, once in a behaviour.                          *)
(***************************************************************************)
UserIds == DOMAIN FixedUsers
StudentIds == DOMAIN FixedStudents

InitAuth ==
    /\ users = FixedUsers
    /\ students \in [StudentIds -> [supervisor_id : {None, 2, 3, 4},
                                    assigned_teacher_id : {None, 1, 2}]]
    /\ \/ \E s \in StudentIds \cup {None} :
            /\ plans = (1 :> PlanRow(s, 1, "draft", 0, <<>>))
            /\ student_plans = {}
       \/ \E ss \in (SUBSET StudentIds) \ {{}} :
            /\ plans = (1 :> PlanRow(None, 1, "draft", 0, <<>>))
            /\ student_plans = {StudentPlanRow(1, s, "draft", <<>>) : s \in ss}
    /\ objectives = (1 :> <<>>)
    /\ tasks = (1 :> <<>>)
    /\ last = NoRequest
    /\ inflight = {}
    /\ sessions = {}

CheckStudent(actor, student) ==
    /\ last.op = "none"
    /\ last' = [NoRequest EXCEPT !.op = "can_manage_student", !.actor = actor,
                                 !.target = student,
                                 !.result = can_manage_student(actor, student)]
    /\ UNCHANGED <<directory, rows, inflight>>

CheckPlan(actor, p) ==
    /\ last.op = "none"
    /\ last' = [NoRequest EXCEPT !.op = "can_manage_plan", !.actor = actor, !.plan = p,
                                 !.result = can_manage_plan(actor, p)]
    /\ UNCHANGED <<directory, rows, inflight>>

NextAuth ==
    \/ \E actor \in UserIds : \E student \in StudentIds \cup {None} :
         CheckStudent(actor, student)
    \/ \E actor \in UserIds : \E p \in DOMAIN plans : CheckPlan(actor, p)

SpecAuth == InitAuth /\ [][NextAuth]_vars

\* The rule of the specification: who manages a (present) student.
Manages(actor, student) ==
    \/ users[actor].role = "admin"
    \/ users[actor].role = "supervisor" /\ students[student].supervisor_id = actor
    \/ /\ users[actor].teacher_profile # None
       /\ students[student].assigned_teacher_id = users[actor].teacher_profile

(***************************************************************************)
(* The request handlers of app/blueprints/planning/routes.py.  A handler   *)
(* runs for an authenticated actor and is one step: the decorators, the    *)
(* lookup (get_or_404), the permission check (abort(403)) and, when they   *)
(* pass, everything the handler and the model methods it calls commit.     *)
(* Only submitted, valid forms are modelled (a GET changes nothing).       *)
(***************************************************************************)
PlanIds == {1}
ObjectiveIds == {1}

\* what the forms submit: the objectives text, and the students selected
FormTexts == {<<>>, <<"a">>}
FormSelections == {{}, {1}}
EditStatuses == {"draft", "on_hold"}
TaskFormStatuses == {"pending"}
CreateTexts == {<<"a">>}
CreateStatuses == {"draft"}

Served(op, actor, p, target, outcome) ==
    [NoRequest EXCEPT !.op = op, !.actor = actor, !.plan = p, !.target = target,
                      !.outcome = outcome, !.n = 1]

\* A bug the permission check could have: only actors of the teacher role are checked.
plan_route_teachers_only(actor, p) ==
    IF ~planning_access(actor) THEN "forbidden"
    ELSE IF p \notin DOMAIN plans THEN "not_found"
    ELSE IF is_teacher(actor) /\ ~can_manage_plan(actor, p) THEN "forbidden"
    ELSE "ok"

\* @planning_access_required, Plan.query.get_or_404(id), and
\* "if not current_user.is_admin() and not can_manage_plan(plan): abort(403)"
plan_route(actor, p) ==
    IF ~planning_access(actor) THEN "forbidden"
    ELSE IF p \notin DOMAIN plans THEN "not_found"
    ELSE IF ~is_admin(actor) /\ ~can_manage_plan(actor, p) THEN "forbidden"
    ELSE "ok"

\* the same for a task or an objective, looked up by its own id: child is the
\* plan's sequence of them, i the position
child_route(actor, p, child, i) ==
    IF ~planning_access(actor) THEN "forbidden"
    ELSE IF p \notin DOMAIN plans \/ i \notin 1..Len(child[p]) THEN "not_found"
    ELSE plan_route(actor, p)

\* A bug delete_plan could have: the check of the other plan routes.
delete_plan_allowed_as_manage(actor, p) == is_admin(actor) \/ can_manage_plan(actor, p)

\* delete_plan: "if not current_user.is_admin() and plan.created_by_id != current_user.id"
delete_plan_allowed(actor, p) == is_admin(actor) \/ plans[p].created_by_id = actor

Without(f, p) == [q \in (DOMAIN f) \ {p} |-> f[q]]

RemoveAt(seq, i) == SubSeq(seq, 1, i - 1) \o SubSeq(seq, i + 1, Len(seq))

\* A bug create_plan could have: one manageable student among the selected is enough.
create_plan_route_existential(actor, selected) ==
    IF ~planning_access(actor) THEN "forbidden"
    ELSE IF selected = {} THEN "invalid"
    ELSE IF \A st \in selected : ~is_admin(actor) /\ ~can_manage_student(actor, st)
         THEN "invalid"
    ELSE "ok"

\* the outcome of create_plan for the resolved students selected
create_plan_route(actor, selected) ==
    IF ~planning_access(actor) THEN "forbidden"
    ELSE IF selected = {} THEN "invalid"
    ELSE IF \E st \in selected : ~is_admin(actor) /\ ~can_manage_student(actor, st)
         THEN "invalid"
    ELSE "ok"

\* A bug create_plan could have: the plan is stored before the selection is validated.
create_plan_stores_first(actor, selected, status, text) ==
    LET outcome == create_plan_route(actor, selected)
        free == PlanIds \ DOMAIN plans
        p == CHOOSE q \in free : \A r \in free : q <= r
        parsed == parse_objectives(text)
        student_objs ==
            [i \in 1..Len(parsed) |-> ObjectiveRow(parsed[i].text, parsed[i].order, "pending")]
    IN /\ free # {}
       /\ last' = [Served("create_plan", actor, IF outcome = "ok" THEN p ELSE None,
                          None, outcome) EXCEPT !.n = Cardinality(selected),
                                                !.selected = selected]
       /\ IF outcome # "forbidden"
          THEN /\ plans' = (p :> PlanRow(None, actor, status, 0, text)) @@ plans
               /\ student_plans' = student_plans \cup
                      {StudentPlanRow(p, st, status, student_objs) : st \in selected}
               /\ UNCHANGED <<objectives, tasks>>
          ELSE UNCHANGED rows
       /\ UNCHANGED <<directory, inflight>>

\* create_plan; last keeps the resolved students (selected) and their number (n)
create_plan(actor, selected, status, text) ==
    LET outcome == create_plan_route(actor, selected)
        free == PlanIds \ DOMAIN plans
        p == CHOOSE q \in free : \A r \in free : q <= r
        parsed == parse_objectives(text)
        student_objs ==
            [i \in 1..Len(parsed) |-> ObjectiveRow(parsed[i].text, parsed[i].order, "pending")]
    IN /\ free # {}
       /\ last' = [Served("create_plan", actor, IF outcome = "ok" THEN p ELSE None,
                          None, outcome) EXCEPT !.n = Cardinality(selected),
                                                !.selected = selected]
       /\ IF outcome = "ok"
          THEN /\ plans' = (p :> PlanRow(None, actor, status, 0, text)) @@ plans
               /\ student_plans' = student_plans \cup
                      {StudentPlanRow(p, st, status, student_objs) : st \in selected}
               /\ UNCHANGED <<objectives, tasks>>
          ELSE UNCHANGED rows
       /\ UNCHANGED <<directory, inflight>>

\* the students the edit form offers (form.student_ids.choices)
edit_choices(actor, p) ==
    IF is_admin(actor) THEN DOMAIN students
    ELSE IF is_multi_student(p)
         THEN {sp.student_id : sp \in {x \in plan_student_plans(p) :
                                          can_manage_student(actor, x.student_id)}}
    ELSE {plan_student(plans[p])} \ {None}

\* A bug edit_plan could have: the objectives are recreated on every edit.
edit_plan_always_replaces(actor, p, student, status, text) ==
    LET outcome == plan_route(actor, p)
        plan == plans[p]
        parsed == parse_objectives(text)
        objs == [i \in 1..Len(parsed) |->
                    ObjectiveRow(parsed[i].text, parsed[i].order, "pending")]
        row == [plan EXCEPT !.status = status, !.objectives = text]
    IN /\ IF outcome = "ok" THEN student \in edit_choices(actor, p) \cup {None}
          ELSE student = None /\ status = "draft" /\ text = <<>>
       /\ last' = IF outcome = "ok"
                  THEN [Served("edit_plan", actor, p, None, outcome) EXCEPT
                           !.n = completed_objective_count(objectives[p]),
                           !.result = TRUE]
                  ELSE Served("edit_plan", actor, p, None, outcome)
       /\ IF outcome = "ok"
          THEN /\ objectives' = [objectives EXCEPT ![p] = objs]
               /\ plans' = [plans EXCEPT ![p] = update_progress(row, objs)]
               /\ UNCHANGED <<tasks, student_plans>>
          ELSE UNCHANGED rows
       /\ UNCHANGED <<directory, inflight>>

\* edit_plan; last keeps how many completed objectives the edit found (n) and
\* whether the trimmed text differed from the stored one (result)
edit_plan(actor, p, student, status, text) ==
    LET outcome == plan_route(actor, p)
        plan == plans[p]
        changed == strip(text) # strip(plan.objectives)
        parsed == parse_objectives(text)
        objs == IF changed
                THEN [i \in 1..Len(parsed) |->
                         ObjectiveRow(parsed[i].text, parsed[i].order, "pending")]
                ELSE objectives[p]
        row == [plan EXCEPT !.student_id = IF ~is_multi_student(p) /\ student # None
                                           THEN student ELSE plan.student_id,
                            !.status = status,
                            !.objectives = text]
    IN /\ IF outcome = "ok" THEN student \in edit_choices(actor, p) \cup {None}
          ELSE student = None /\ status = "draft" /\ text = <<>>
       /\ last' = IF outcome = "ok"
                  THEN [Served("edit_plan", actor, p, None, outcome) EXCEPT
                           !.n = completed_objective_count(objectives[p]),
                           !.result = changed]
                  ELSE Served("edit_plan", actor, p, None, outcome)
       /\ IF outcome = "ok"
          THEN /\ objectives' = [objectives EXCEPT ![p] = objs]
               /\ plans' = [plans EXCEPT ![p] = update_progress(row, objs)]
               /\ UNCHANGED <<tasks, student_plans>>
          ELSE UNCHANGED rows
       /\ UNCHANGED <<directory, inflight>>

\* the outcome of delete_plan
delete_plan_route(actor, p) ==
    IF ~planning_access(actor) THEN "forbidden"
    ELSE IF p \notin DOMAIN plans THEN "not_found"
    ELSE IF ~delete_plan_allowed(actor, p) THEN "forbidden"
    ELSE "ok"

\* the rows that db.session.delete(plan) deletes with the plan: n of last
child_count(p) ==
    Len(tasks[p]) + Len(objectives[p]) + Cardinality(plan_student_plans(p))

\* A bug delete_plan could have: the plan row is deleted without its child rows
\* (a bulk query delete, which the relationships' cascade does not follow).
delete_plan_row_only(actor, p) ==
    LET outcome == delete_plan_route(actor, p)
    IN /\ last' = IF outcome = "ok"
                  THEN [Served("delete_plan", actor, p, None, outcome) EXCEPT
                           !.n = child_count(p)]
                  ELSE Served("delete_plan", actor, p, None, outcome)
       /\ IF outcome = "ok"
          THEN /\ plans' = Without(plans, p)
               /\ UNCHANGED <<objectives, tasks, student_plans>>
          ELSE UNCHANGED rows
       /\ UNCHANGED <<directory, inflight>>

delete_plan(actor, p) ==
    LET outcome == delete_plan_route(actor, p)
    IN /\ last' = IF outcome = "ok"
                  THEN [Served("delete_plan", actor, p, None, outcome) EXCEPT
                           !.n = child_count(p)]
                  ELSE Served("delete_plan", actor, p, None, outcome)
       /\ IF outcome = "ok"
          THEN /\ plans' = Without(plans, p)
               /\ objectives' = [objectives EXCEPT ![p] = <<>>]
               /\ tasks' = [tasks EXCEPT ![p] = <<>>]
               /\ student_plans' = student_plans \ plan_student_plans(p)
          ELSE UNCHANGED rows
       /\ UNCHANGED <<directory, inflight>>

activate_plan(actor, p) ==
    LET outcome == plan_route(actor, p)
    IN /\ last' = Served("activate_plan", actor, p, None, outcome)
       /\ IF outcome = "ok"
          THEN /\ plans' = [plans EXCEPT ![p].status = "active"]
               /\ UNCHANGED <<objectives, tasks, student_plans>>
          ELSE UNCHANGED rows
       /\ UNCHANGED <<directory, inflight>>

complete_plan(actor, p) ==
    LET outcome == plan_route(actor, p)
    IN /\ last' = Served("complete_plan", actor, p, None, outcome)
       /\ IF outcome = "ok"
          THEN /\ plans' = [plans EXCEPT ![p] = Plan_complete(plans[p])]
               /\ UNCHANGED <<objectives, tasks, student_plans>>
          ELSE UNCHANGED rows
       /\ UNCHANGED <<directory, inflight>>

create_task(actor, p, status) ==
    LET outcome == plan_route(actor, p)
    IN /\ IF outcome = "ok" THEN Len(tasks[p]) < MaxTasks ELSE status = "pending"
       /\ last' = Served("create_task", actor, p, None, outcome)
       /\ IF outcome = "ok"
          THEN /\ tasks' = [tasks EXCEPT ![p] = Append(tasks[p], TaskRow(status))]
               /\ plans' = [plans EXCEPT ![p] = update_progress(plans[p], objectives[p])]
               /\ UNCHANGED <<objectives, student_plans>>
          ELSE UNCHANGED rows
       /\ UNCHANGED <<directory, inflight>>

edit_task(actor, p, i, status) ==
    LET outcome == child_route(actor, p, tasks, i)
    IN /\ outcome # "ok" => status = "pending"
       /\ last' = Served("edit_task", actor, p, i, outcome)
       /\ IF outcome = "ok"
          THEN /\ tasks' = [tasks EXCEPT ![p][i].status = status]
               /\ plans' = [plans EXCEPT ![p] = update_progress(plans[p], objectives[p])]
               /\ UNCHANGED <<objectives, student_plans>>
          ELSE UNCHANGED rows
       /\ UNCHANGED <<directory, inflight>>

delete_task(actor, p, i) ==
    LET outcome == child_route(actor, p, tasks, i)
    IN /\ last' = Served("delete_task", actor, p, i, outcome)
       /\ IF outcome = "ok"
          THEN /\ tasks' = [tasks EXCEPT ![p] = RemoveAt(tasks[p], i)]
               /\ plans' = [plans EXCEPT ![p] = update_progress(plans[p], objectives[p])]
               /\ UNCHANGED <<objectives, student_plans>>
          ELSE UNCHANGED rows
       /\ UNCHANGED <<directory, inflight>>

complete_task(actor, p, i) ==
    LET outcome == child_route(actor, p, tasks, i)
    IN /\ last' = Served("complete_task", actor, p, i, outcome)
       /\ IF outcome = "ok"
          THEN /\ tasks' = [tasks EXCEPT ![p][i] = Task_complete(tasks[p][i])]
               /\ plans' = [plans EXCEPT ![p] = update_progress(plans[p], objectives[p])]
               /\ UNCHANGED <<objectives, student_plans>>
          ELSE UNCHANGED rows
       /\ UNCHANGED <<directory, inflight>>

start_task(actor, p, i) ==
    LET outcome == child_route(actor, p, tasks, i)
    IN /\ last' = Served("start_task", actor, p, i, outcome)
       /\ IF outcome = "ok"
          THEN /\ tasks' = [tasks EXCEPT ![p][i] = Task_start(tasks[p][i])]
               /\ UNCHANGED <<plans, objectives, student_plans>>
          ELSE UNCHANGED rows
       /\ UNCHANGED <<directory, inflight>>

\* toggle_objective: Objective.toggle, which ends in plan.update_progress
toggle_objective(actor, p, i) ==
    LET outcome == child_route(actor, p, objectives, i)
        objs == [objectives[p] EXCEPT ![i] = Objective_toggle(objectives[p][i])]
    IN /\ last' = Served("toggle_objective", actor, p, i, outcome)
       /\ IF outcome = "ok"
          THEN /\ objectives' = [objectives EXCEPT ![p] = objs]
               /\ plans' = [plans EXCEPT ![p] = update_progress(plans[p], objs)]
               /\ UNCHANGED <<tasks, student_plans>>
          ELSE UNCHANGED rows
       /\ UNCHANGED <<directory, inflight>>

(***************************************************************************)
(* Spec: the requests served one after the other.  The database starts     *)
(* empty or with one single-student plan (created before plans were shared *)
(* between students: create_plan now always creates a shared plan).        *)
(***************************************************************************)
Init ==
    /\ users = FixedUsers
    /\ students = FixedStudents
    /\ \/ plans = <<>>
       \/ plans = (1 :> PlanRow(2, 2, "draft", 0, <<>>))
    /\ objectives = [p \in PlanIds |-> <<>>]
    /\ tasks = [p \in PlanIds |-> <<>>]
    /\ student_plans = {}
    /\ last = NoRequest
    /\ inflight = {}
    /\ sessions = {}

Next ==
    \/ \E actor \in UserIds : \E selected \in FormSelections :
       \E status \in CreateStatuses : \E text \in CreateTexts :
         create_plan(actor, selected, status, text)
    \/ \E actor \in UserIds : \E p \in PlanIds : \E student \in {None} :
       \E status \in EditStatuses : \E text \in FormTexts :
         edit_plan(actor, p, student, status, text)
    \/ \E actor \in UserIds : \E p \in PlanIds : delete_plan(actor, p)
    \/ \E actor \in UserIds : \E p \in PlanIds : activate_plan(actor, p)
    \/ \E actor \in UserIds : \E p \in PlanIds : complete_plan(actor, p)
    \/ \E actor \in UserIds : \E p \in PlanIds : \E status \in TaskFormStatuses :
         create_task(actor, p, status)
    \/ \E actor \in UserIds : \E p \in PlanIds : \E i \in 1..MaxTasks :
       \E status \in TaskFormStatuses :
         edit_task(actor, p, i, status)
    \/ \E actor \in UserIds : \E p \in PlanIds : \E i \in 1..MaxTasks :
         delete_task(actor, p, i)
    \/ \E actor \in UserIds : \E p \in PlanIds : \E i \in 1..MaxTasks :
         complete_task(actor, p, i)
    \/ \E actor \in UserIds : \E p \in PlanIds : \E i \in 1..MaxTasks :
         start_task(actor, p, i)
    \/ \E actor \in UserIds : \E p \in PlanIds : \E i \in ObjectiveIds :
         toggle_objective(actor, p, i)

Spec == Init /\ [][Next]_vars

(***************************************************************************)
(* SpecPlan: the methods of the models called on one plan, one after the   *)
(* other.  The plan starts in any status with any objectives and tasks,    *)
(* its stored progress being what update_progress last computed; the       *)
(* progress that Plan.complete forces arises from the Complete action.     *)
(***************************************************************************)
ObjectiveLists ==
    UNION {{[i \in 1..n |-> ObjectiveRow(<<"o">>, i - 1, f[i])] :
               f \in [1..n -> ObjectiveStatus]} : n \in 0..MaxPlanObjectives}

TaskLists ==
    UNION {{[i \in 1..n |-> TaskRow(f[i])] : f \in [1..n -> TaskStatus]} : n \in 0..MaxTasks}

InitPlan ==
    /\ users = FixedUsers
    /\ students = FixedStudents
    /\ \E objs \in ObjectiveLists : \E st \in PlanStatus :
         /\ objectives = (1 :> objs)
         /\ plans = (1 :> PlanRow(1, 2, st, calculate_progress(objs), <<>>))
    /\ \E ts \in TaskLists : tasks = (1 :> ts)
    /\ student_plans = {}
    /\ last = NoRequest
    /\ inflight = {}
    /\ sessions = {}

Called(op, i) ==
    [NoRequest EXCEPT !.op = op, !.plan = 1, !.target = i, !.outcome = "ok",
                      !.pre_status = plans[1].status, !.n = 1,
                      !.p0 = plans[1].progress_percentage]

\* Objective.toggle on objective i of the plan: the flip, then plan.update_progress.
\* last counts a second toggle of the same objective right after a first (n = 2)
\* and keeps what the first found: the objective's status (pre_objective), the
\* stored progress (p0) and whether that was the derived value (result).
Toggle(i) ==
    LET again == last.op = "toggle" /\ last.target = i /\ last.n = 1
        objs == [objectives[1] EXCEPT ![i] = Objective_toggle(objectives[1][i])]
    IN /\ i \in 1..Len(objectives[1])
       /\ objectives' = [objectives EXCEPT ![1] = objs]
       /\ plans' = [plans EXCEPT ![1] = update_progress(plans[1], objs)]
       /\ last' = IF again
                  THEN [last EXCEPT !.n = 2, !.pre_status = plans[1].status]
                  ELSE [Called("toggle", i) EXCEPT
                           !.pre_objective = objectives[1][i].status,
                           !.result = (plans[1].progress_percentage
                                          = calculate_progress(objectives[1]))]
       /\ UNCHANGED <<directory, tasks, student_plans, inflight>>

Activate ==
    /\ plans' = [plans EXCEPT ![1] = Plan_activate(plans[1])]
    /\ last' = Called("activate", None)
    /\ UNCHANGED <<directory, objectives, tasks, student_plans, inflight>>

Complete ==
    /\ plans' = [plans EXCEPT ![1] = Plan_complete(plans[1])]
    /\ last' = Called("complete", None)
    /\ UNCHANGED <<directory, objectives, tasks, student_plans, inflight>>

Cancel ==
    /\ plans' = [plans EXCEPT ![1] = Plan_cancel(plans[1])]
    /\ last' = Called("cancel", None)
    /\ UNCHANGED <<directory, objectives, tasks, student_plans, inflight>>

NextPlan ==
    \/ \E i \in 1..MaxPlanObjectives : Toggle(i)
    \/ Activate
    \/ Complete
    \/ Cancel

SpecPlan == InitPlan /\ [][NextPlan]_vars

(***************************************************************************)
(* SpecConc: requests served concurrently, each with a database session of *)
(* its own, a step being what one commit makes visible.  Objective.toggle  *)
(* commits twice: the flipped objective (db.session.commit() in toggle),   *)
(* then the plan row recomputed by plan.update_progress (its own commit).  *)
(* inflight holds the requests between the two.  plan_detail reads the     *)
(* plan and its objectives.  The plan starts with the progress and status  *)
(* its objectives give it.                                                 *)
(***************************************************************************)
Requests == {1, 2}

\* the stored progress and status of plan p are those its objectives give
Reflects(p) ==
    /\ plans[p].progress_percentage = calculate_progress(objectives[p])
    /\ plans[p].status = "active" => plans[p].progress_percentage # 100

InitConc ==
    /\ users = FixedUsers
    /\ students = FixedStudents
    /\ \E objs \in ObjectiveLists : \E st \in PlanStatus :
         /\ objs # <<>>
         /\ objectives = (1 :> objs)
         /\ plans = (1 :> PlanRow(1, 2, st, calculate_progress(objs), <<>>))
         /\ st = "active" => calculate_progress(objs) # 100
    /\ tasks = (1 :> <<>>)
    /\ student_plans = {}
    /\ last = NoRequest
    /\ inflight = {}
    /\ sessions = {}

\* request r, in Objective.toggle: the flip and the first commit
ToggleFlip(r, i) ==
    /\ \A x \in inflight : x.request # r
    /\ i \in 1..Len(objectives[1])
    /\ objectives' = [objectives EXCEPT ![1][i] = Objective_toggle(objectives[1][i])]
    /\ inflight' = inflight \cup {[request |-> r, objective |-> i]}
    /\ last' = [NoRequest EXCEPT !.op = "toggle_flip", !.plan = 1, !.target = i,
                                 !.outcome = "ok"]
    /\ UNCHANGED <<directory, plans, tasks, student_plans>>

\* request r, in Objective.toggle: self.plan.update_progress() and its commit
ToggleRecompute(r) ==
    \E x \in inflight :
        /\ x.request = r
        /\ plans' = [plans EXCEPT ![1] = update_progress(plans[1], objectives[1])]
        /\ inflight' = inflight \ {x}
        /\ last' = [NoRequest EXCEPT !.op = "toggle_recompute", !.plan = 1,
                                     !.target = x.objective, !.outcome = "ok"]
        /\ UNCHANGED <<directory, objectives, tasks, student_plans>>

\* request r serves plan_detail: the page shows the plan's stored progress (p0)
\* and status (pre_status) next to its objectives, n of them completed
plan_detail(r) ==
    /\ \A x \in inflight : x.request # r
    /\ last' = [NoRequest EXCEPT !.op = "plan_detail", !.plan = 1, !.outcome = "ok",
                                 !.pre_status = plans[1].status,
                                 !.p0 = plans[1].progress_percentage,
                                 !.n = completed_objective_count(objectives[1])]
    /\ UNCHANGED <<directory, rows, inflight>>

NextConc ==
    \/ \E r \in Requests : \E i \in 1..MaxPlanObjectives : ToggleFlip(r, i)
    \/ \E r \in Requests : ToggleRecompute(r)
    \/ \E r \in Requests : plan_detail(r)

SpecConc == InitConc /\ [][NextConc]_vars


(***************************************************************************)
(* SpecTask: the methods of Task called on the one task of a plan, and the *)
(* day its due date passes.  Task.complete and Task.cancel end in          *)
(* plan.update_progress; Task.start and Task.check_overdue do not.  The    *)
(* plan is as update_progress or Plan.complete left it.                    *)
(***************************************************************************)
DatedTaskRow(status, past_due) == [status |-> status, past_due |-> past_due]

InitTask ==
    /\ users = FixedUsers
    /\ students = FixedStudents
    /\ \E objs \in ObjectiveLists : \E st \in PlanStatus :
         /\ objectives = (1 :> objs)
         /\ \/ plans = (1 :> PlanRow(1, 2, st, calculate_progress(objs), <<>>))
            \/ plans = (1 :> Plan_complete(PlanRow(1, 2, st, calculate_progress(objs), <<>>)))
    /\ \E st \in TaskStatus : \E past_due \in BOOLEAN :
         tasks = (1 :> <<DatedTaskRow(st, past_due)>>)
    /\ student_plans = {}
    /\ last = NoRequest
    /\ inflight = {}
    /\ sessions = {}

TaskCalled(op) == [Called(op, 1) EXCEPT !.pre_task = tasks[1][1].status]

StartTask ==
    /\ tasks' = [tasks EXCEPT ![1][1] = Task_start(tasks[1][1])]
    /\ last' = TaskCalled("task_start")
    /\ UNCHANGED <<directory, plans, objectives, student_plans, inflight>>

CompleteTask ==
    /\ tasks' = [tasks EXCEPT ![1][1] = Task_complete(tasks[1][1])]
    /\ plans' = [plans EXCEPT ![1] = update_progress(plans[1], objectives[1])]
    /\ last' = TaskCalled("task_complete")
    /\ UNCHANGED <<directory, objectives, student_plans, inflight>>

CancelTask ==
    /\ tasks' = [tasks EXCEPT ![1][1] = Task_cancel(tasks[1][1])]
    /\ plans' = [plans EXCEPT ![1] = update_progress(plans[1], objectives[1])]
    /\ last' = TaskCalled("task_cancel")
    /\ UNCHANGED <<directory, objectives, student_plans, inflight>>

CheckOverdue ==
    /\ tasks' = [tasks EXCEPT ![1][1] = Task_check_overdue(tasks[1][1])]
    /\ last' = TaskCalled("check_overdue")
    /\ UNCHANGED <<directory, plans, objectives, student_plans, inflight>>

\* midnight after the due date
DueDatePasses ==
    /\ ~tasks[1][1].past_due
    /\ tasks' = [tasks EXCEPT ![1][1].past_due = TRUE]
    /\ last' = TaskCalled("due_date_passes")
    /\ UNCHANGED <<directory, plans, objectives, student_plans, inflight>>

NextTask ==
    \/ StartTask
    \/ CompleteTask
    \/ CancelTask
    \/ CheckOverdue
    \/ DueDatePasses

SpecTask == InitTask /\ [][NextTask]_vars


(***************************************************************************)
(* SpecShared: a plan shared by students 1 and 2, created by the admin     *)
(* through create_plan, and the requests on it: the three StudentPlan      *)
(* routes and edit_plan.  StudentPlan and StudentObjective are missing     *)
(* from app/models/planning.py: their methods are modelled after the       *)
(* specification, as the methods of Plan and Objective applied to one      *)
(* StudentPlan and its own StudentObjectives.                              *)
(***************************************************************************)
SharedActors == {3, 4}
SharedStudents == {1, 2}
SharedStatuses == {"draft", "active"}
SharedTexts == {<<"a">>, <<"a", "\n", "b">>}
SharedOrders == {1, 2}

\* StudentObjective.toggle: the flip
StudentObjective_toggle(obj) == Objective_toggle(obj)

\* StudentPlan.update_progress: from the StudentPlan's own StudentObjectives
StudentPlan_update_progress(sp) ==
    LET pp == calculate_progress(sp.objectives)
    IN [sp EXCEPT !.progress_percentage = pp,
                  !.status = IF pp = 100 /\ sp.status = "active"
                             THEN "completed" ELSE sp.status]

\* StudentPlan.activate
StudentPlan_activate(sp) == [sp EXCEPT !.status = "active"]

\* StudentPlan.complete
StudentPlan_complete(sp) == [sp EXCEPT !.status = "completed", !.progress_percentage = 100]

\* the StudentPlan row of student st in plan p (StudentPlan.query.get_or_404)
student_plan_of(p, st) == {sp \in plan_student_plans(p) : sp.student_id = st}

\* A bug the StudentPlan routes could have: the check of the plan routes, which
\* one manageable student of the plan satisfies.
student_plan_route_by_plan(actor, p, st) ==
    IF ~planning_access(actor) THEN "forbidden"
    ELSE IF p \notin DOMAIN plans \/ student_plan_of(p, st) = {} THEN "not_found"
    ELSE IF ~is_admin(actor) /\ ~can_manage_plan(actor, p) THEN "forbidden"
    ELSE "ok"

\* @planning_access_required, get_or_404 and
\* "if not current_user.is_admin() and not can_manage_student(sp.student): abort(403)"
student_plan_route(actor, p, st) ==
    IF ~planning_access(actor) THEN "forbidden"
    ELSE IF p \notin DOMAIN plans \/ student_plan_of(p, st) = {} THEN "not_found"
    ELSE IF ~is_admin(actor) /\ ~can_manage_student(actor, plan_student([student_id |-> st]))
         THEN "forbidden"
    ELSE "ok"

\* the table with row sp replaced by row changed
Replaced(sp, changed) == (student_plans \ {sp}) \cup {changed}

\* A bug toggle_student_objective could have: the objective of that order is
\* toggled in every StudentPlan of the plan.
toggle_student_objective_pooled(actor, p, st, i) ==
    LET found == student_plan_of(p, st)
        sp == CHOOSE x \in found : TRUE
        outcome == IF student_plan_route(actor, p, st) = "ok" /\ i \notin 1..Len(sp.objectives)
                   THEN "not_found" ELSE student_plan_route(actor, p, st)
        toggled(x) == StudentPlan_update_progress(
                          [x EXCEPT !.objectives[i] = StudentObjective_toggle(x.objectives[i])])
    IN /\ last' = IF outcome = "ok"
                  THEN [Served("toggle_student_objective", actor, p, st, outcome) EXCEPT
                           !.n = i, !.pre_status = sp.status]
                  ELSE Served("toggle_student_objective", actor, p, st, outcome)
       /\ IF outcome = "ok"
          THEN /\ student_plans' = (student_plans \ plan_student_plans(p))
                                      \cup {toggled(x) : x \in plan_student_plans(p)}
               /\ UNCHANGED <<plans, objectives, tasks>>
          ELSE UNCHANGED rows
       /\ UNCHANGED <<directory, inflight>>

\* toggle_student_objective on StudentObjective i of student st in plan p:
\* StudentObjective.toggle, which ends in the StudentPlan's update_progress
toggle_student_objective(actor, p, st, i) ==
    LET found == student_plan_of(p, st)
        sp == CHOOSE x \in found : TRUE
        outcome == IF student_plan_route(actor, p, st) = "ok" /\ i \notin 1..Len(sp.objectives)
                   THEN "not_found" ELSE student_plan_route(actor, p, st)
        toggled == StudentPlan_update_progress(
                       [sp EXCEPT !.objectives[i] = StudentObjective_toggle(sp.objectives[i])])
    IN /\ last' = IF outcome = "ok"
                  THEN [Served("toggle_student_objective", actor, p, st, outcome) EXCEPT
                           !.n = i, !.pre_status = sp.status]
                  ELSE Served("toggle_student_objective", actor, p, st, outcome)
       /\ IF outcome = "ok"
          THEN /\ student_plans' = Replaced(sp, toggled)
               /\ UNCHANGED <<plans, objectives, tasks>>
          ELSE UNCHANGED rows
       /\ UNCHANGED <<directory, inflight>>

activate_student_plan(actor, p, st) ==
    LET found == student_plan_of(p, st)
        sp == CHOOSE x \in found : TRUE
        outcome == student_plan_route(actor, p, st)
    IN /\ last' = Served("activate_student_plan", actor, p, st, outcome)
       /\ IF outcome = "ok"
          THEN /\ student_plans' = Replaced(sp, StudentPlan_activate(sp))
               /\ UNCHANGED <<plans, objectives, tasks>>
          ELSE UNCHANGED rows
       /\ UNCHANGED <<directory, inflight>>

complete_student_plan(actor, p, st) ==
    LET found == student_plan_of(p, st)
        sp == CHOOSE x \in found : TRUE
        outcome == student_plan_route(actor, p, st)
    IN /\ last' = Served("complete_student_plan", actor, p, st, outcome)
       /\ IF outcome = "ok"
          THEN /\ student_plans' = Replaced(sp, StudentPlan_complete(sp))
               /\ UNCHANGED <<plans, objectives, tasks>>
          ELSE UNCHANGED rows
       /\ UNCHANGED <<directory, inflight>>

InitShared ==
    /\ users = FixedUsers
    /\ students = FixedStudents
    /\ plans = <<>>
    /\ objectives = [p \in PlanIds |-> <<>>]
    /\ tasks = [p \in PlanIds |-> <<>>]
    /\ student_plans = {}
    /\ last = NoRequest
    /\ inflight = {}
    /\ sessions = {}

NextShared ==
    \/ \E status \in SharedStatuses : \E text \in SharedTexts :
         create_plan(1, SharedStudents, status, text)
    \/ \E actor \in SharedActors : \E st \in SharedStudents : \E i \in SharedOrders :
         toggle_student_objective(actor, 1, st, i)
    \/ \E actor \in SharedActors : \E st \in SharedStudents :
         activate_student_plan(actor, 1, st)
    \/ \E actor \in SharedActors : \E st \in SharedStudents :
         complete_student_plan(actor, 1, st)
    \/ \E text \in SharedTexts :
         edit_plan(1, 1, None, "draft", text)

SpecShared == InitShared /\ [][NextShared]_vars


(***************************************************************************)
(* SpecEdit: edit_plan on one stored single-student plan whose Objective   *)
(* rows were created from its stored text, some of them completed since,   *)
(* with texts that differ in whitespace only, in a blank line or in a line.*)
(***************************************************************************)
EditTexts ==
    {<<>>, <<"a">>, <<" ", "a", "\n">>, <<"a", "\n", "b">>, <<"a", "\n", "\n", "b">>,
     <<"b", "\n", "a">>}

InitEdit ==
    /\ users = FixedUsers
    /\ students = FixedStudents
    /\ \E text \in EditTexts : \E st \in {"draft", "active"} :
       \E f \in [1..MaxPlanObjectives -> ObjectiveStatus] :
         LET parsed == parse_objectives(text)
             objs == [i \in 1..Len(parsed) |->
                         ObjectiveRow(parsed[i].text, parsed[i].order, f[i])]
         IN /\ objectives = (1 :> objs)
            /\ plans = (1 :> update_progress(PlanRow(1, 2, st, 0, text), objs))
    /\ tasks = (1 :> <<>>)
    /\ student_plans = {}
    /\ last = NoRequest
    /\ inflight = {}
    /\ sessions = {}

NextEdit ==
    \/ \E actor \in {1, 3} : \E status \in {"draft", "active"} : \E text \in EditTexts :
         edit_plan(actor, 1, None, status, text)
    \/ \E i \in 1..MaxPlanObjectives : toggle_objective(3, 1, i)

SpecEdit == InitEdit /\ [][NextEdit]_vars


(***************************************************************************)
(* SpecCreate: one create_plan on an empty database, for every selection   *)
(* of students, by an administrator, a supervisor and a teacher, with      *)
(* texts that have blank lines and untrimmed lines.                        *)
(***************************************************************************)
CreateActors == {1, 3, 4}
CreateSelections == SUBSET {1, 2, 3}
CreatePlanStatuses == {"draft", "active", "on_hold"}
CreatePlanTexts ==
    {<<>>, <<"a">>, <<"a", "\n", "b">>, <<"a", "\n", "\n", "b">>, <<" ", "a", " ", "\n", "\n">>}

NextCreate ==
    \E actor \in CreateActors : \E selected \in CreateSelections :
    \E status \in CreatePlanStatuses : \E text \in CreatePlanTexts :
        create_plan(actor, selected, status, text)

SpecCreate == InitShared /\ [][NextCreate]_vars


(***************************************************************************)
(* SpecSession: login sessions and account status (app/blueprints/auth/    *)
(* routes.py, app/blueprints/admin/__init__.py).  Every request passes     *)
(* before_request, registered with before_app_request, and then            *)
(* @login_required, before its handler runs.  User rows carry a status     *)
(* here; user 1 is the administrator, user 3 the teacher of the student of *)
(* plan 1.                                                                 *)
(***************************************************************************)
UserStatus == {"active", "inactive", "suspended", "pending"}
SessionActors == {1, 3}

\* A bug before_request could have: the status is not looked at.
before_request_disabled(actor) == "pass"

\* before_request: an authenticated user who is not active is logged out
before_request(actor) ==
    IF actor \in sessions /\ users[actor].status # "active" THEN "logout" ELSE "pass"

\* what answers the request before its handler: the logout of before_request or
\* the redirect of @login_required; "pass" lets the handler run
gate(actor) ==
    IF before_request(actor) = "logout" THEN "logged_out"
    ELSE IF actor \notin sessions THEN "login_required"
    ELSE "pass"

\* the request is answered by the gate: the session is dropped on logout
Gated(op, actor, p) ==
    /\ gate(actor) # "pass"
    /\ last' = Served(op, actor, p, None, gate(actor))
    /\ sessions' = IF gate(actor) = "logged_out" THEN sessions \ {actor} ELSE sessions
    /\ UNCHANGED <<users, students, rows, inflight>>

\* login with valid credentials
login(u) ==
    LET outcome == IF before_request(u) = "logout" THEN "logged_out"
                   ELSE IF u \in sessions THEN "redirect"
                   ELSE IF users[u].status = "inactive" THEN "refused"
                   ELSE IF users[u].status = "suspended" THEN "refused"
                   ELSE IF users[u].status = "pending" THEN "refused"
                   ELSE "ok"
    IN /\ last' = Served("login", u, None, None, outcome)
       /\ sessions' = CASE outcome = "ok" -> sessions \cup {u}
                        [] outcome = "logged_out" -> sessions \ {u}
                        [] OTHER -> sessions
       /\ UNCHANGED <<users, students, rows, inflight>>

\* admin toggle_user_status on user u
toggle_user_status(actor, u) ==
    \/ Gated("toggle_user_status", actor, None)
    \/ /\ gate(actor) = "pass"
       /\ LET outcome == IF ~is_admin(actor) THEN "forbidden"
                         ELSE IF u = actor THEN "refused"
                         ELSE "ok"
          IN /\ last' = Served("toggle_user_status", actor, None, u, outcome)
             /\ users' = IF outcome = "ok"
                         THEN [users EXCEPT ![u].status =
                                  IF users[u].status = "active" THEN "inactive" ELSE "active"]
                         ELSE users
       /\ UNCHANGED <<students, sessions, rows, inflight>>

\* admin edit_user on user u: the status of the form is stored
edit_user(actor, u, status) ==
    \/ Gated("edit_user", actor, None) /\ status = "active"
    \/ /\ gate(actor) = "pass"
       /\ LET outcome == IF ~is_admin(actor) THEN "forbidden" ELSE "ok"
          IN /\ status = "active" \/ outcome = "ok"
             /\ last' = Served("edit_user", actor, None, u, outcome)
             /\ users' = IF outcome = "ok" THEN [users EXCEPT ![u].status = status] ELSE users
       /\ UNCHANGED <<students, sessions, rows, inflight>>

\* activate_plan and complete_plan behind the gate
session_activate_plan(actor, p) ==
    \/ Gated("activate_plan", actor, p)
    \/ gate(actor) = "pass" /\ activate_plan(actor, p)

session_complete_plan(actor, p) ==
    \/ Gated("complete_plan", actor, p)
    \/ gate(actor) = "pass" /\ complete_plan(actor, p)

InitSession ==
    /\ \E st \in [SessionActors -> UserStatus] :
         users = [u \in 1..5 |->
                     [role |-> FixedUsers[u].role,
                      teacher_profile |-> FixedUsers[u].teacher_profile,
                      status |-> IF u \in SessionActors THEN st[u] ELSE "active"]]
    /\ students = FixedStudents
    /\ plans = (1 :> PlanRow(1, 2, "draft", 0, <<>>))
    /\ objectives = [p \in PlanIds |-> <<>>]
    /\ tasks = [p \in PlanIds |-> <<>>]
    /\ student_plans = {}
    /\ last = NoRequest
    /\ inflight = {}
    /\ sessions = {}

NextSession ==
    \/ \E u \in SessionActors : login(u)
    \/ \E actor \in SessionActors : \E u \in SessionActors : toggle_user_status(actor, u)
    \/ \E actor \in SessionActors : \E u \in SessionActors : \E status \in UserStatus :
         edit_user(actor, u, status)
    \/ \E actor \in SessionActors : session_activate_plan(actor, 1)
    \/ \E actor \in SessionActors : session_complete_plan(actor, 1)

SpecSession == InitSession /\ [][NextSession]_vars


(***************************************************************************)
(* SpecDirectory: the two routes that delete a teacher's account           *)
(* (app/blueprints/teacher/routes.py delete, app/blueprints/admin/         *)
(* __init__.py delete_user), on a database without plans and with every    *)
(* assignment of the three students to the teachers 1 and 2.               *)
(***************************************************************************)
TeacherIds == {1, 2, 3}
DirectoryActors == {1, 2, 3}
DeletedUsers == {1, 3, 4, 5}

\* Teacher.query.get: the user whose teacher profile is t
teacher_user(t) == {u \in DOMAIN users : users[u].teacher_profile = t}

\* teacher.assigned_students
assigned_students(t) == {s \in DOMAIN students : students[s].assigned_teacher_id = t}

\* db.session.delete(user): the Teacher profile goes with the user (cascade
\* 'all, delete-orphan'), and the students that referred to the profile or to
\* the user keep a NULL reference (relationships without cascade, ondelete SET NULL)
delete_user_row(u) ==
    /\ users' = Without(users, u)
    /\ students' = [s \in DOMAIN students |->
                       [supervisor_id |-> IF students[s].supervisor_id = u
                                          THEN None ELSE students[s].supervisor_id,
                        assigned_teacher_id |->
                            IF /\ users[u].teacher_profile # None
                               /\ students[s].assigned_teacher_id = users[u].teacher_profile
                            THEN None ELSE students[s].assigned_teacher_id]]

\* teacher delete: refused while students are assigned; for a teacher without
\* students the handler goes on to teacher.courses, which Teacher does not
\* define, and the request ends in an error before anything is deleted
teacher_delete(actor, t) ==
    LET outcome == IF ~(is_admin(actor) \/ is_supervisor(actor)) THEN "forbidden"
                   ELSE IF teacher_user(t) = {} THEN "not_found"
                   ELSE IF assigned_students(t) # {} THEN "refused"
                   ELSE "error"
    IN /\ actor \in DOMAIN users
       /\ last' = Served("teacher_delete", actor, None, t, outcome)
       /\ UNCHANGED <<directory, rows, inflight>>

\* admin delete_user
delete_user(actor, u) ==
    LET outcome == IF ~is_admin(actor) THEN "forbidden"
                   ELSE IF u \notin DOMAIN users THEN "not_found"
                   ELSE IF u = actor THEN "refused"
                   ELSE "ok"
    IN /\ actor \in DOMAIN users
       /\ last' = Served("delete_user", actor, None, u, outcome)
       /\ IF outcome = "ok" THEN delete_user_row(u) ELSE UNCHANGED <<users, students>>
       /\ UNCHANGED <<sessions, rows, inflight>>

InitDirectory ==
    /\ users = FixedUsers
    /\ \E a \in [1..3 -> {None, 1, 2}] :
         students = [s \in 1..3 |->
                        [supervisor_id |-> FixedStudents[s].supervisor_id,
                         assigned_teacher_id |-> a[s]]]
    /\ plans = <<>>
    /\ objectives = [p \in PlanIds |-> <<>>]
    /\ tasks = [p \in PlanIds |-> <<>>]
    /\ student_plans = {}
    /\ last = NoRequest
    /\ inflight = {}
    /\ sessions = {}

NextDirectory ==
    \/ \E actor \in DirectoryActors : \E t \in TeacherIds : teacher_delete(actor, t)
    \/ \E actor \in DirectoryActors : \E u \in DeletedUsers : delete_user(actor, u)

SpecDirectory == InitDirectory /\ [][NextDirectory]_vars


(***************************************************************************)
(* SpecStudent: delete_student (app/blueprints/student/routes.py) on       *)
(* students that carry their enrollments (Student.enrollments, cascade     *)
(* 'all, delete-orphan') as a sequence of Enrollment statuses; student 1   *)
(* may have a single-student plan.                                         *)
(***************************************************************************)
EnrollmentStatus == {"active", "dropped", "completed"}
EnrollmentLists ==
    {<<>>} \cup {<<a>> : a \in EnrollmentStatus}
           \cup {<<a, b>> : a \in {"active", "dropped"}, b \in {"active", "completed"}}

\* student.enrollments.filter_by(status='active').count()
active_enrollments(s) ==
    Cardinality({i \in 1..Len(students[s].enrollments) :
                    students[s].enrollments[i] = "active"})

\* A bug delete_student could have: the enrollments are not looked at.
delete_student_unchecked(actor, s) ==
    LET outcome == IF ~(is_admin(actor) \/ is_supervisor(actor)) THEN "forbidden"
                   ELSE IF s \notin DOMAIN students THEN "not_found"
                   ELSE "ok"
    IN /\ last' = Served("delete_student", actor, None, s, outcome)
       /\ students' = IF outcome = "ok" THEN Without(students, s) ELSE students
       /\ UNCHANGED <<users, sessions, rows, inflight>>

\* delete_student: refused while an enrollment is active.  Otherwise the student
\* row goes with its enrollments; a plan of the student cannot keep a NULL
\* student_id (Plan.student_id is nullable=False and Student.plans has no
\* cascade), so the commit fails and nothing is deleted
delete_student(actor, s) ==
    LET outcome == IF ~(is_admin(actor) \/ is_supervisor(actor)) THEN "forbidden"
                   ELSE IF s \notin DOMAIN students THEN "not_found"
                   ELSE IF active_enrollments(s) > 0 THEN "refused"
                   ELSE IF \E p \in DOMAIN plans : plans[p].student_id = s THEN "error"
                   ELSE "ok"
    IN /\ last' = Served("delete_student", actor, None, s, outcome)
       /\ students' = IF outcome = "ok" THEN Without(students, s) ELSE students
       /\ UNCHANGED <<users, sessions, rows, inflight>>

InitStudent ==
    /\ users = FixedUsers
    /\ \E e \in [1..3 -> EnrollmentLists] :
         students = [s \in 1..3 |->
                        [supervisor_id |-> FixedStudents[s].supervisor_id,
                         assigned_teacher_id |-> FixedStudents[s].assigned_teacher_id,
                         enrollments |-> e[s]]]
    /\ \/ plans = <<>>
       \/ plans = (1 :> PlanRow(1, 2, "draft", 0, <<>>))
    /\ objectives = [p \in PlanIds |-> <<>>]
    /\ tasks = [p \in PlanIds |-> <<>>]
    /\ student_plans = {}
    /\ last = NoRequest
    /\ inflight = {}
    /\ sessions = {}

NextStudent ==
    \E actor \in {1, 2, 3} : \E s \in 1..3 : delete_student(actor, s)

SpecStudent == InitStudent /\ [][NextStudent]_vars

(***************************************************************************)
(* C1: after Plan.update_progress the stored progress_percentage of a plan *)
(* with N objectives, K of them completed, is floor(100*K/N), and 0 when   *)
(* N = 0.                                                                  *)
(***************************************************************************)
C1_ProgressIsFloor ==
    last.op = "update_progress" =>
        LET N == objective_count(objectives[1])
            K == completed_objective_count(objectives[1])
        IN plans[1].progress_percentage = IF N > 0 THEN (100 * K) \div N ELSE 0

(***************************************************************************)
(* C8: Plan.update_progress is idempotent: the row one call leaves is      *)
(* left as it is by a second call on the same objectives.                  *)
(***************************************************************************)
C8_UpdateProgressIdempotent ==
    [][last.n >= 1 /\ last'.op = "update_progress" /\ last'.n = last.n + 1
          => plans' = plans]_vars

C8_Witness ==
    /\ last.op = "update_progress"
    /\ last.n = 2
    /\ plans[1].status = "completed"
    /\ plans[1].progress_percentage = 100
    /\ Len(objectives[1]) >= 2

(***************************************************************************)
(* C3: can_manage_student is false for an absent student, for every actor, *)
(* an admin included; for a present student it is true exactly when the    *)
(* actor is admin, or is a supervisor and the student's supervisor, or has *)
(* a teacher profile that is the student's assigned teacher.               *)
(***************************************************************************)
C3_CanManageStudent ==
    last.op = "can_manage_student" =>
        last.result = (last.target # None /\ Manages(last.actor, last.target))

C3_Witness ==
    /\ last.op = "can_manage_student"
    /\ is_admin(last.actor)
    /\ last.target = None
    /\ last.result = FALSE

(***************************************************************************)
(* C4: can_manage_plan is true for every admin; for a non-admin it is      *)
(* can_manage_student of plan.student on a single-student plan, and on a   *)
(* shared plan it is true exactly when some student of the plan is         *)
(* manageable by the actor.                                                *)
(***************************************************************************)
C4_CanManagePlan ==
    last.op = "can_manage_plan" =>
        last.result =
            IF users[last.actor].role = "admin" THEN TRUE
            ELSE IF is_multi_student(last.plan)
                 THEN \E sp \in plan_student_plans(last.plan) :
                         Manages(last.actor, sp.student_id)
                 ELSE /\ plans[last.plan].student_id # None
                      /\ Manages(last.actor, plans[last.plan].student_id)

\* a teacher assigned only student #2 of a 3-student plan manages the plan
C4_Witness ==
    /\ last.op = "can_manage_plan"
    /\ last.actor = 3
    /\ {sp.student_id : sp \in plan_student_plans(last.plan)} = {1, 2, 3}
    /\ ~Manages(3, 1) /\ Manages(3, 2) /\ ~Manages(3, 3)
    /\ last.result = TRUE

(***************************************************************************)
(* C2: over any sequence of objective toggles, update_progress changes the *)
(* plan's status only from active to completed, and does so exactly at the *)
(* toggle after which the recomputed progress is 100; a plan in any other  *)
(* status (draft, on_hold, cancelled, completed) keeps it, at progress 50  *)
(* and at progress 100 alike.                                              *)
(***************************************************************************)
C2_StatusOnlyActiveToCompleted ==
    [][last'.op = "toggle" =>
          LET before == plans[1].status
              after == plans'[1].status
              recomputed == calculate_progress(objectives'[1])
          IN /\ plans'[1].progress_percentage = recomputed
             /\ after # before => before = "active" /\ after = "completed"
             /\ after # before <=> before = "active" /\ recomputed = 100]_vars

C2_Witness ==
    /\ last.op = "toggle"
    /\ last.pre_status = "active"
    /\ plans[1].status = "completed"
    /\ plans[1].progress_percentage = 100
    /\ Len(objectives[1]) = 2

C9_CompleteForces100 ==
    [][last'.op = "complete" =>
          /\ plans'[1].status = "completed"
          /\ plans'[1].progress_percentage = 100
          /\ tasks' = tasks
          /\ objectives' = objectives]_vars

C9_Witness ==
    /\ last.op = "complete"
    /\ last.pre_status = "cancelled"
    /\ last.p0 = 0
    /\ Len(objectives[1]) = 2
    /\ \A i \in 1..2 : objectives[1][i].status = "pending"
    /\ Len(tasks[1]) = 1
    /\ tasks[1][1].status = "in_progress"
    /\ plans[1].status = "completed"
    /\ plans[1].progress_percentage = 100

(***************************************************************************)
(* C6 as stated: toggling an objective is atomic with its cascade: in no   *)
(* committed state is the objective's new status stored while the plan's   *)
(* progress_percentage and status still reflect the old one, and no        *)
(* request reading the plan in between sees them apart.                    *)
(***************************************************************************)
C6_ToggleAtomic ==
    /\ \A p \in DOMAIN plans : Reflects(p)
    /\ last.op = "plan_detail" =>
          last.p0 = calculate_progress(
                        NK(Len(objectives[1]), last.n))

(***************************************************************************)
(* C5: for a non-admin actor and a plan for which can_manage_plan(actor,   *)
(* plan) is false, each of edit_plan, activate_plan, complete_plan,        *)
(* create_task, edit_task, delete_task, complete_task, start_task and      *)
(* toggle_objective is rejected (Forbidden) and leaves the plan, its tasks *)
(* and its objectives as they were.                                        *)
(***************************************************************************)
PlanRoutes == {"edit_plan", "activate_plan", "complete_plan", "create_task"}
TaskRoutes == {"edit_task", "delete_task", "complete_task", "start_task"}
ObjectiveRoutes == {"toggle_objective"}

C5_UnauthorizedRejected ==
    [][LET op == last'.op
           actor == last'.actor
           p == last'.plan
           addressed ==
               /\ op \in PlanRoutes \cup TaskRoutes \cup ObjectiveRoutes
               /\ p \in DOMAIN plans
               /\ op \in TaskRoutes => last'.target \in 1..Len(tasks[p])
               /\ op \in ObjectiveRoutes => last'.target \in 1..Len(objectives[p])
       IN addressed /\ ~is_admin(actor) /\ ~can_manage_plan(actor, p) =>
              /\ last'.outcome = "forbidden"
              /\ plans' = plans
              /\ tasks' = tasks
              /\ objectives' = objectives
              /\ student_plans' = student_plans]_vars

C5_Witness ==
    /\ last.op = "toggle_objective"
    /\ last.outcome = "forbidden"
    /\ last.plan \in DOMAIN plans
    /\ last.target \in 1..Len(objectives[last.plan])
    /\ planning_access(last.actor)
    /\ is_supervisor(last.actor)
    /\ ~can_manage_plan(last.actor, last.plan)
    /\ plans[last.plan].status = "active"

(***************************************************************************)
(* C10: delete_plan removes a plan only when the actor is an admin or the  *)
(* plan's created_by; for every other actor, one for whom can_manage_plan  *)
(* is true included, the request is rejected and the plan and its child    *)
(* rows are unchanged.                                                     *)
(***************************************************************************)
C10_DeleteOnlyAdminOrCreator ==
    [][/\ \A p \in DOMAIN plans :
            p \notin DOMAIN plans' =>
                /\ last'.op = "delete_plan"
                /\ last'.plan = p
                /\ is_admin(last'.actor) \/ plans[p].created_by_id = last'.actor
       /\ last'.op = "delete_plan" /\ last'.plan \in DOMAIN plans
             /\ ~is_admin(last'.actor)
             /\ plans[last'.plan].created_by_id # last'.actor =>
                /\ last'.outcome = "forbidden"
                /\ plans' = plans
                /\ tasks' = tasks
                /\ objectives' = objectives
                /\ student_plans' = student_plans]_vars

C10_Witness ==
    /\ last.op = "delete_plan"
    /\ last.outcome = "forbidden"
    /\ last.plan \in DOMAIN plans
    /\ ~is_admin(last.actor)
    /\ can_manage_plan(last.actor, last.plan)
    /\ plans[last.plan].created_by_id # last.actor
    /\ Len(tasks[last.plan]) = 1
    /\ Len(objectives[last.plan]) = 1

(***************************************************************************)
(* C11: deleting a plan removes every Task and Objective of the plan and,  *)
(* for a shared plan, every StudentPlan (with its StudentObjectives): in   *)
(* every reachable state each Task, Objective and StudentPlan refers to a  *)
(* plan that exists.                                                       *)
(***************************************************************************)
C11_NoOrphanRows ==
    /\ \A p \in PlanIds : p \notin DOMAIN plans => tasks[p] = <<>> /\ objectives[p] = <<>>
    /\ \A sp \in student_plans : sp.plan_id \in DOMAIN plans

C11_Witness ==
    /\ last.op = "delete_plan"
    /\ last.outcome = "ok"
    /\ last.n = 3
    /\ last.plan \notin DOMAIN plans

(***************************************************************************)
(* C12 as stated: a plan whose status is completed or cancelled leaves     *)
(* that status only through an operation performed by an admin: served to  *)
(* a non-admin actor, activate_plan, complete_plan, edit_plan and the      *)
(* update_progress they run never change the status of such a plan.        *)
(***************************************************************************)
C12_TerminalLeftOnlyByAdmin ==
    [][\A p \in DOMAIN plans \cap DOMAIN plans' :
           /\ plans[p].status \in {"completed", "cancelled"}
           /\ plans'[p].status # plans[p].status
           => is_admin(last'.actor)]_vars

(***************************************************************************)
(* C13 as stated: a task in a terminal status (completed, cancelled) is    *)
(* never moved to another status by Task.start, Task.complete, Task.cancel *)
(* or Task.check_overdue, and from pending, in_progress or overdue the     *)
(* actor-driven moves lead to in_progress, completed or cancelled only.    *)
(***************************************************************************)
C13_TaskMachine ==
    [][LET before == tasks[1][1].status
           after == tasks'[1][1].status
       IN /\ last'.op \in {"task_start", "task_complete", "task_cancel", "check_overdue"}
             /\ before \in {"completed", "cancelled"} => after = before
          /\ last'.op \in {"task_start", "task_complete", "task_cancel"}
             /\ before \in {"pending", "in_progress", "overdue"}
             => after \in {"in_progress", "completed", "cancelled"}]_vars

(***************************************************************************)
(* C14: a served toggle of a StudentObjective changes only the StudentPlan *)
(* that owns it: every other StudentPlan row and the parent Plan (its      *)
(* status included) stay as they were, the owning StudentPlan's progress   *)
(* is the floor percentage of its own completed objectives, and it is      *)
(* auto-completed exactly when it was active and all its own objectives    *)
(* are now completed.                                                      *)
(***************************************************************************)
C14_ToggleOwnStudentPlanOnly ==
    [][last'.op = "toggle_student_objective" /\ last'.outcome = "ok" =>
         LET before == CHOOSE sp \in student_plans :
                           sp.plan_id = last'.plan /\ sp.student_id = last'.target
             after == CHOOSE sp \in student_plans' :
                           sp.plan_id = last'.plan /\ sp.student_id = last'.target
             total == Len(after.objectives)
             done == Cardinality({i \in 1..total : after.objectives[i].status = "completed"})
         IN /\ plans' = plans
            /\ objectives' = objectives
            /\ student_plans' \ {after} = student_plans \ {before}
            /\ after.progress_percentage * total <= done * 100
            /\ done * 100 < (after.progress_percentage + 1) * total
            /\ after.status = IF before.status = "active" /\ done = total
                              THEN "completed" ELSE before.status]_vars

C14_Witness ==
    /\ last.op = "toggle_student_objective"
    /\ last.outcome = "ok"
    /\ last.pre_status = "active"
    /\ plans[last.plan].status = "active"
    /\ \E sp \in student_plans :
         sp.student_id = last.target /\ sp.status = "completed" /\ sp.progress_percentage = 100
    /\ \E sp \in student_plans :
         sp.student_id # last.target /\ sp.status = "active" /\ sp.progress_percentage = 0

(***************************************************************************)
(* C15: a served edit_plan replaces the plan's objectives exactly when the *)
(* submitted text differs from the stored one after trimming: then the new *)
(* objectives are one pending objective per non-blank line of the trimmed  *)
(* text, in line order, and the progress is 0; when the trimmed texts are  *)
(* equal the objectives, completion marks included, are the same as before.*)
(***************************************************************************)
C15_EditReplacesIffTextChanged ==
    [][last'.op = "edit_plan" /\ last'.outcome = "ok" =>
         LET p == last'.plan
             lines == IF strip(plans'[p].objectives) = <<>> THEN <<>>
                      ELSE split(strip(plans'[p].objectives))
             kept == {j \in 1..Len(lines) : strip(lines[j]) # <<>>}
             new == objectives'[p]
         IN IF strip(plans'[p].objectives) # strip(plans[p].objectives)
            THEN /\ Len(new) = Cardinality(kept)
                 /\ \A k \in 1..Len(new) :
                      /\ new[k].status = "pending"
                      /\ \E j \in kept : /\ Cardinality({x \in kept : x <= j}) = k
                                         /\ new[k].text = strip(lines[j])
                 /\ plans'[p].progress_percentage = 0
            ELSE objectives'[p] = objectives[p]]_vars

C15_Witness ==
    /\ last.op = "edit_plan"
    /\ last.outcome = "ok"
    /\ last.result
    /\ last.n > 0
    /\ Len(objectives[last.plan]) = 2
    /\ \A k \in 1..2 : objectives[last.plan][k].status = "pending"
    /\ plans[last.plan].objectives = <<"a", "\n", "\n", "b">>
    /\ plans[last.plan].progress_percentage = 0

(***************************************************************************)
(* C16: after a served edit_plan that changes the objectives text of a     *)
(* multi-student plan, every StudentPlan of the plan holds only pending    *)
(* StudentObjectives, one per non-blank line of the new text, so that no   *)
(* StudentObjective completed before the edit is still completed.          *)
(***************************************************************************)
C16_EditDiscardsStudentCompletion ==
    [][/\ last'.op = "edit_plan"
       /\ last'.outcome = "ok"
       /\ is_multi_student(last'.plan)
       /\ strip(plans'[last'.plan].objectives) # strip(plans[last'.plan].objectives)
       => LET lines == split(strip(plans'[last'.plan].objectives))
              kept == {j \in 1..Len(lines) : strip(lines[j]) # <<>>}
          IN \A sp \in student_plans' :
               sp.plan_id = last'.plan =>
                 /\ Len(sp.objectives) = Cardinality(kept)
                 /\ \A k \in 1..Len(sp.objectives) :
                      /\ sp.objectives[k].status = "pending"
                      /\ \E j \in kept : sp.objectives[k].text = strip(lines[j])]_vars

(***************************************************************************)
(* C17: a create_plan whose resolved set of students is empty is refused   *)
(* and stores nothing: the Plan rows and the StudentPlan rows (with the    *)
(* StudentObjectives they hold) are the same as before the request.        *)
(***************************************************************************)
C17_EmptySelectionCreatesNothing ==
    [][last'.op = "create_plan" /\ last'.n = 0 =>
         /\ last'.outcome # "ok"
         /\ plans' = plans
         /\ student_plans' = student_plans
         /\ objectives' = objectives]_vars

C17_Witness ==
    /\ last.op = "create_plan"
    /\ last.n = 0
    /\ last.outcome = "invalid"
    /\ is_admin(last.actor)
    /\ plans = <<>>
    /\ student_plans = {}

(***************************************************************************)
(* C18: a served create_plan for n > 1 students stores exactly one Plan,   *)
(* exactly one StudentPlan per selected student, each with the plan's      *)
(* status, and in each StudentPlan one pending StudentObjective per        *)
(* non-blank line of the trimmed text, holding the trimmed line and the    *)
(* line's index as its order.                                              *)
(***************************************************************************)
C18_CreateClonesPerStudent ==
    last.op = "create_plan" /\ last.outcome = "ok" /\ Cardinality(last.selected) > 1 =>
        LET p == last.plan
            lines == IF strip(plans[p].objectives) = <<>> THEN <<>>
                     ELSE split(strip(plans[p].objectives))
            kept == {j \in 1..Len(lines) : strip(lines[j]) # <<>>}
        IN /\ DOMAIN plans = {p}
           /\ Cardinality(student_plans) = Cardinality(last.selected)
           /\ {sp.student_id : sp \in student_plans} = last.selected
           /\ \A sp \in student_plans :
                /\ sp.plan_id = p
                /\ sp.status = plans[p].status
                /\ Len(sp.objectives) = Cardinality(kept)
                /\ \A k \in 1..Len(sp.objectives) :
                     /\ sp.objectives[k].status = "pending"
                     /\ sp.objectives[k].order + 1 \in kept
                     /\ Cardinality({x \in kept : x <= sp.objectives[k].order + 1}) = k
                     /\ sp.objectives[k].text = strip(lines[sp.objectives[k].order + 1])

C18_Witness ==
    /\ last.op = "create_plan"
    /\ last.outcome = "ok"
    /\ last.selected = {1, 2, 3}
    /\ plans[last.plan].objectives = <<"a", "\n", "\n", "b">>
    /\ plans[last.plan].status = "active"
    /\ Cardinality(student_plans) = 3
    /\ \A sp \in student_plans :
         /\ sp.status = "active"
         /\ Len(sp.objectives) = 2
         /\ sp.objectives[2].order = 2
         /\ sp.objectives[2].text = <<"b">>

(***************************************************************************)
(* C19: a user whose status is not active never acts.  A session is opened *)
(* only for an active user; a request of a user who holds a session and is *)
(* not active is answered by logging that user out, with nothing stored;   *)
(* and whenever a user row or a planning row changes, the request was made *)
(* by a user who held a session and was active.                            *)
(***************************************************************************)
C19_OnlyActiveActorsAct ==
    [][/\ \A u \in sessions' \ sessions : users[u].status = "active"
       /\ \A u \in sessions :
            last'.actor = u /\ users[u].status # "active" =>
                /\ last'.outcome = "logged_out"
                /\ u \notin sessions'
                /\ users' = users /\ students' = students /\ rows' = rows
       /\ (users' # users \/ students' # students \/ rows' # rows) =>
            /\ last'.actor \in sessions
            /\ users[last'.actor].status = "active"]_vars

C19_Witness ==
    /\ last.op = "activate_plan"
    /\ last.outcome = "logged_out"
    /\ last.actor = 3
    /\ users[3].status = "suspended"
    /\ 3 \notin sessions
    /\ 1 \in sessions
    /\ plans[1].status = "completed"

(***************************************************************************)
(* C20: a teacher who has an assigned student is never deleted, and no     *)
(* deletion request clears a student's assigned teacher: a user whose      *)
(* teacher profile some student refers to is still there after every       *)
(* request, and after a teacher delete or a delete_user every student has  *)
(* the assigned teacher it had before.                                     *)
(***************************************************************************)
C20_AssignedTeacherNeverDeleted ==
    [][/\ \A u \in DOMAIN users :
            /\ users[u].teacher_profile # None
            /\ assigned_students(users[u].teacher_profile) # {}
            => u \in DOMAIN users' /\ users'[u] = users[u]
       /\ last'.op \in {"teacher_delete", "delete_user"} =>
            \A s \in DOMAIN students :
                students'[s].assigned_teacher_id = students[s].assigned_teacher_id]_vars


(***************************************************************************)
(* SpecIndex: the planning dashboard (app/blueprints/planning/routes.py    *)
(* index) next to create_plan and the two routes that take a student away  *)
(* from a teacher (app/blueprints/teacher/routes.py unassign_student) or   *)
(* from a supervisor (app/blueprints/supervisor/routes.py                  *)
(* unassign_supervisor).                                                   *)
(***************************************************************************)
IndexActors == {1, 2, 3}
IndexSelections == {{1}, {1, 2}}
IndexStudents == {1, 2}

\* the students of the actor's role branch: supervised by the user, or
\* assigned to the user's teacher profile
index_student_ids(actor) ==
    IF is_supervisor(actor)
    THEN {s \in DOMAIN students : students[s].supervisor_id = actor}
    ELSE IF users[actor].teacher_profile # None
    THEN {s \in DOMAIN students :
             students[s].assigned_teacher_id = users[actor].teacher_profile}
    ELSE {}

\* the query index builds for the actor, without the status and type filters
index_query(actor) ==
    IF is_admin(actor) THEN DOMAIN plans
    ELSE IF is_supervisor(actor)
    THEN {p \in DOMAIN plans :
             \/ plans[p].student_id \in index_student_ids(actor)
             \/ plans[p].supervisor_id = actor
             \/ plans[p].created_by_id = actor}
    ELSE {p \in DOMAIN plans :
             \/ plans[p].student_id \in index_student_ids(actor)
             \/ plans[p].created_by_id = actor}

\* index: the listing leaves the database alone; last.n is the number of plans listed
index(actor) ==
    LET outcome == IF ~planning_access(actor) THEN "forbidden" ELSE "ok"
    IN /\ actor \in DOMAIN users
       /\ last' = [Served("index", actor, None, None, outcome) EXCEPT
                      !.n = IF outcome = "ok" THEN Cardinality(index_query(actor)) ELSE 0]
       /\ UNCHANGED <<directory, rows, inflight>>

\* teacher unassign_student
unassign_student(actor, t, s) ==
    LET outcome == IF ~(is_admin(actor) \/ is_supervisor(actor)) THEN "forbidden"
                   ELSE IF teacher_user(t) = {} \/ s \notin DOMAIN students THEN "not_found"
                   ELSE IF students[s].assigned_teacher_id # t THEN "refused"
                   ELSE "ok"
    IN /\ actor \in DOMAIN users
       /\ last' = Served("unassign_student", actor, None, s, outcome)
       /\ students' = IF outcome = "ok"
                      THEN [students EXCEPT ![s].assigned_teacher_id = None]
                      ELSE students
       /\ UNCHANGED <<users, sessions, rows, inflight>>

\* supervisor unassign_supervisor
unassign_supervisor(actor, s) ==
    LET outcome == IF ~(is_admin(actor) \/ is_supervisor(actor)) THEN "forbidden"
                   ELSE IF s \notin DOMAIN students THEN "not_found"
                   ELSE IF ~is_admin(actor) /\ students[s].supervisor_id # actor
                        THEN "forbidden"
                   ELSE "ok"
    IN /\ actor \in DOMAIN users
       /\ last' = Served("unassign_supervisor", actor, None, s, outcome)
       /\ students' = IF outcome = "ok"
                      THEN [students EXCEPT ![s].supervisor_id = None]
                      ELSE students
       /\ UNCHANGED <<users, sessions, rows, inflight>>

NextIndex ==
    \/ \E actor \in IndexActors : \E selected \in IndexSelections :
         create_plan(actor, selected, "draft", <<>>)
    \/ \E actor \in IndexActors : \E t \in {1, 2} : \E s \in IndexStudents :
         unassign_student(actor, t, s)
    \/ \E actor \in IndexActors : \E s \in IndexStudents : unassign_supervisor(actor, s)
    \/ \E actor \in IndexActors : index(actor)

SpecIndex == InitShared /\ [][NextIndex]_vars


C22_NoExistenceLeak ==
    /\ last.op \in PlanRoutes \cup TaskRoutes \cup ObjectiveRoutes
    /\ last.plan \in DOMAIN plans
    /\ ~is_admin(last.actor)
    /\ ~can_manage_plan(last.actor, last.plan)
    => \A missing \in 1..(Cardinality(PlanIds) + 1) :
           missing \notin DOMAIN plans => last.outcome = plan_route(last.actor, missing)

(***************************************************************************)
(* C23: Task.complete and Task.cancel never change the owning plan's       *)
(* progress_percentage, whatever state the plan is in, and change its      *)
(* status only from active to completed, at progress 100.                  *)
(***************************************************************************)
C23_TaskLeavesProgress ==
    [][last'.op \in {"task_complete", "task_cancel"} =>
         /\ plans'[1].progress_percentage = plans[1].progress_percentage
         /\ plans'[1].status # plans[1].status =>
              /\ plans[1].status = "active"
              /\ plans'[1].status = "completed"
              /\ plans'[1].progress_percentage = 100]_vars

(***************************************************************************)
(* C24: Task.check_overdue makes the task overdue exactly when its due     *)
(* date has passed and its status is pending or in_progress, and otherwise *)
(* leaves the task as it is; it never changes the plan; and Task.start,    *)
(* Task.complete and Task.cancel never store the status overdue.           *)
(***************************************************************************)
C24_OverdueOnlyBySweep ==
    [][LET before == tasks[1][1]
           after == tasks'[1][1]
       IN /\ last'.op = "check_overdue" =>
               /\ plans' = plans /\ objectives' = objectives
               /\ IF before.past_due /\ before.status \in {"pending", "in_progress"}
                  THEN after = [before EXCEPT !.status = "overdue"]
                  ELSE after = before
          /\ last'.op \in {"task_start", "task_complete", "task_cancel"} =>
               after.status # "overdue"]_vars

C24_Witness ==
    /\ last.op = "check_overdue"
    /\ last.pre_task = "in_progress"
    /\ tasks[1][1].status = "overdue"
    /\ tasks[1][1].past_due
    /\ plans[1].status = "active"

(***************************************************************************)
(* C25: cache coherence.  In every state between requests, a plan that is  *)
(* not completed stores as progress_percentage the floor of 100*K/N over   *)
(* its N objectives, K of them completed, and 0 when it has none.          *)
(***************************************************************************)
C25_CacheCoherent ==
    \A p \in DOMAIN plans :
        plans[p].status # "completed" =>
            LET total == Len(objectives[p])
                done == Cardinality({i \in 1..total : objectives[p][i].status = "completed"})
            IN IF total = 0 THEN plans[p].progress_percentage = 0
               ELSE /\ plans[p].progress_percentage * total <= 100 * done
                    /\ 100 * done < (plans[p].progress_percentage + 1) * total

(***************************************************************************)
(* C26: in every state between requests, a plan whose status is completed  *)
(* has progress_percentage 100.                                            *)
(***************************************************************************)
C26_CompletedMeans100 ==
    \A p \in DOMAIN plans :
        plans[p].status = "completed" => plans[p].progress_percentage = 100

(***************************************************************************)
(* C27: in every state between requests, no plan is active while it has at *)
(* least one objective and all its objectives are completed.               *)
(***************************************************************************)
C27_NoActivePlanAllDone ==
    \A p \in DOMAIN plans :
        ~ /\ plans[p].status = "active"
          /\ Len(objectives[p]) > 0
          /\ \A i \in 1..Len(objectives[p]) : objectives[p][i].status = "completed"

(***************************************************************************)
(* C28: toggle_student_objective, activate_student_plan and                *)
(* complete_student_plan requested by an actor who is not an administrator *)
(* are served only if the actor can manage the student of the StudentPlan  *)
(* addressed; if the actor cannot, the request is rejected and no          *)
(* StudentPlan, StudentObjective or plan row changes, also when the actor  *)
(* manages another student of the same plan.                               *)
(***************************************************************************)
C28_PerStudentAuthorization ==
    [][/\ last'.op \in {"toggle_student_objective", "activate_student_plan",
                        "complete_student_plan"}
       /\ ~is_admin(last'.actor)
       => /\ last'.outcome = "ok" => can_manage_student(last'.actor, last'.target)
          /\ ~can_manage_student(last'.actor, last'.target) =>
               /\ last'.outcome \in {"forbidden", "not_found"}
               /\ student_plans' = student_plans
               /\ rows' = rows]_vars

C28_Witness ==
    /\ last.op = "complete_student_plan"
    /\ last.outcome = "forbidden"
    /\ last.actor = 3
    /\ last.target = 2
    /\ can_manage_student(3, 1)
    /\ \E sp \in plan_student_plans(last.plan) : sp.student_id = 1
    /\ \E sp \in plan_student_plans(last.plan) : sp.student_id = 2 /\ sp.status = "active"

(***************************************************************************)
(* C29: a create_plan requested by an actor who is not an administrator is *)
(* served only if the actor can manage every selected student; if one of   *)
(* the selected students is not manageable, no Plan and no StudentPlan     *)
(* (with its StudentObjectives) is created, also not for the students the  *)
(* actor does manage.                                                      *)
(***************************************************************************)
C29_CreateNeedsEveryStudent ==
    [][last'.op = "create_plan" /\ ~is_admin(last'.actor) =>
         /\ last'.outcome = "ok" =>
              \A st \in last'.selected : can_manage_student(last'.actor, st)
         /\ (\E st \in last'.selected : ~can_manage_student(last'.actor, st)) =>
              /\ last'.outcome # "ok"
              /\ plans' = plans
              /\ student_plans' = student_plans
              /\ objectives' = objectives]_vars

C29_Witness ==
    /\ last.op = "create_plan"
    /\ last.actor = 3
    /\ last.selected = {1, 2}
    /\ can_manage_student(3, 1)
    /\ ~can_manage_student(3, 2)
    /\ last.outcome = "invalid"
    /\ plans = <<>>
    /\ student_plans = {}

====
